---------------------------- MODULE Spec2Model ----------------------------
(***************************************************************************)
(* The CVN-1 royalty sweeper (src/royalty_sweeper/src/main.rs) as a state  *)
(* machine: one process (main) that refreshes the gas account's sequence   *)
(* number, then either sweeps one escrow once or runs the watch loop       *)
(* (poll balances, chunk the due list, submit the batches one by one).     *)
(* The ledger is the environment: it holds the gas account's on-chain      *)
(* sequence number, answers every call with a value or an error, and       *)
(* accepts a transaction only when its sequence number is the current one. *)
(* Every await of the code is a step boundary; the code between two awaits *)
(* is one step.                                                            *)
(*                                                                         *)
(* Left out: the payload encoding (bcs::to_bytes of addresses) and the     *)
(* wall-clock read that stamps the expiration time; both are taken to      *)
(* succeed.                                                                *)
(***************************************************************************)
EXTENDS Integers, Sequences, FiniteSets, TLC

\* ------------------------------------------------------------------ bounds
\* Number of distinct NFT addresses the inputs are drawn from (1..NumAddr;
\* the integer order stands for AccountAddress's byte order).
NumAddr == 4
\* Number of addresses the --nft arguments of watch mode are drawn from
\* (1..NumCli; the address file lists addresses of its own).
NumCli == 2
\* Largest value of --batch-size that is tried.
MaxBatch == 2
\* The ledger stops accepting transactions of the gas account at this
\* sequence number (caps the otherwise unbounded counter).
MaxSeq == 2
\* Width, in bits, that stands for the 64 bits of a balance.
BalBits == 2
\* Longest prefix of the testnet address given to format_address.
MaxLen == 14

Addr == 1..NumAddr

U64_MAX == 2^BalBits - 1

\* Balances a view call may report: zero, a small one, the largest one.
BalanceSamples == {0, 1, U64_MAX}

Min(a, b) == IF a < b THEN a ELSE b

\* ------------------------------------------------------------------- state
VARIABLES
    pc,               \* where main stands
    command,          \* cli.command: "SweepOnce" or "Watch"
    force,            \* SweepOnce.force
    nft,              \* SweepOnce.nft (one address) or Watch.nft (Vec), until moved
    nfts_file,        \* Watch.nfts_file: the file behind the path, until moved
    batch_size,       \* Watch.batch_size
    sequence_number,  \* gas_account's local sequence number
    ledger_seq,       \* the ledger's sequence number of the gas account
    nfts,             \* the BTreeSet of watch mode
    poll_idx,         \* position of nfts.iter() in the poll loop
    due,              \* Vec<(AccountAddress, u64)> of the cycle
    rest,             \* what due.chunks(..) has not yielded yet
    nft_addrs,        \* the addresses of the transaction being built
    total_balance,    \* the chunk's balance sum (only logged)
    escrow_balance,   \* sweep_one's local
    signed_txn,       \* the transaction signed by the submit call in progress
    in_flight,        \* transactions handed to submit_and_wait and not yet resolved
    submit_result,    \* what submit_and_wait returned: "none", "ok", "err"
    panic_msg,        \* the panic message once pc = "panicked"
    stderr,           \* eprintln! lines of the current cycle / invocation
    stdout,           \* println! lines of the current cycle / invocation
    \* history, read by the properties only
    view_result,      \* the cycle's balance query results, by address
    queried,          \* the cycle's number of balance queries, by address
    batches,          \* the chunks yielded in the cycle, in order
    submit_calls,     \* submit_and_wait calls of the cycle / invocation
    prev,             \* the previous resolved submission and its refreshes
    confirmed,        \* the stamps of the transactions confirmed so far
    cycle_seq,        \* the local sequence number when the cycle's poll began
    startup,          \* the startup refresh: its outcome, and the value it
                      \* stored until the first submit call has returned
    built_from,       \* the arguments the watchlist build consumed, until the
                      \* first balance query
    \* the SDK's format_address, called on its own
    address,          \* the argument of format_address
    formatted         \* what the call returned, once it has

sdkVars == <<address, formatted>>
cliVars == <<command, force, batch_size>>
inputVars == <<nft, nfts_file, built_from>>
pollVars == <<poll_idx, due, view_result, queried>>
chunkVars == <<rest, nft_addrs, total_balance, batches>>
txVars == <<signed_txn, in_flight, submit_result, submit_calls>>
logVars == <<stderr, stdout>>
histVars == <<prev, confirmed, cycle_seq, startup>>

vars == <<pc, sdkVars, cliVars, inputVars, sequence_number, ledger_seq, nfts, pollVars,
          chunkVars, escrow_balance, txVars, panic_msg, logVars, histVars>>

NoTxn == [sequence_number |-> -1, nfts |-> <<>>]
NoPrev == [kind |-> "none", stamp |-> -1, refresh_calls |-> 0,
           refreshed |-> FALSE, val |-> -1, error |-> "none"]
NoView == [ok |-> FALSE, val |-> 0]
NoStartup == [state |-> "none", val |-> -1]

\* What a view call can answer: an error, or Ok(balance).
ViewOutcomes == {NoView} \cup {[ok |-> TRUE, val |-> b] : b \in BalanceSamples}

\* The --nft arguments tried in watch mode: every list of at most two
\* addresses of 1..NumCli (repeats and any order included).
NftArgs ==
    {<<>>} \cup {<<a>> : a \in 1..NumCli} \cup {<<a, b>> : a \in 1..NumCli, b \in 1..NumCli}

\* An --nfts-file argument: absent, unreadable, or a list of lines. A line is a
\* sequence of characters; "1".."9" stand for a valid address text, "z" for
\* text that is no address.
NoFile == [some |-> FALSE, readable |-> FALSE, lines |-> <<>>]
FileArgs ==
    { NoFile,
      [some |-> TRUE, readable |-> FALSE, lines |-> <<>>],
      [some |-> TRUE, readable |-> TRUE, lines |-> <<>>],
      [some |-> TRUE, readable |-> TRUE,
       lines |-> << <<"#", "2">>, <<>>, <<" ", "3", " ">>, <<"3">>, <<"4">>,
                    <<"1">> >>],
      [some |-> TRUE, readable |-> TRUE,
       lines |-> << <<"2">>, <<" ", "#">>, <<"z">>, <<"1">> >>] }
NoBuild == [done |-> FALSE, nft |-> <<>>, file |-> NoFile]
NoFormat == [returned |-> FALSE, panicked |-> FALSE, text |-> <<>>]

\* ----------------------------------------------------------------- helpers
RECURSIVE DescendingSeq(_)
\* An iteration from the greatest element down.
DescendingSeq(S) ==
    IF S = {} THEN <<>>
    ELSE LET m == CHOOSE x \in S : \A y \in S : x >= y
         IN <<m>> \o DescendingSeq(S \ {m})

RECURSIVE SortedSeq(_)
\* BTreeSet::iter(): the elements in ascending order.
SortedSeq(S) ==
    IF S = {} THEN <<>>
    ELSE LET m == CHOOSE x \in S : \A y \in S : x <= y
         IN <<m>> \o SortedSeq(S \ {m})

\* The set of the elements of a list.
Elems(s) == {s[i] : i \in 1..Len(s)}

RECURSIVE InsertAll(_, _)
\* `for addr in list { set.insert(addr); }` on a BTreeSet: insert adds the
\* address unless the set holds it already.
InsertAll(set, list) ==
    IF list = <<>> THEN set
    ELSE InsertAll(IF Head(list) \in set THEN set ELSE set \cup {Head(list)},
                   Tail(list))

\* A watchlist in which the file, when it has addresses, replaces --nft.
MergeFileReplacesCli(cli, file_addrs) ==
    IF file_addrs # <<>> THEN InsertAll({}, file_addrs) ELSE InsertAll({}, cli)

\* Lines 145-153: the BTreeSet filled from --nft, then from the file.
MergeWatchlist(cli, file_addrs) == InsertAll(InsertAll({}, cli), file_addrs)

RECURSIVE TrimStart(_)
TrimStart(line) ==
    IF line # <<>> /\ Head(line) = " " THEN TrimStart(Tail(line)) ELSE line

RECURSIVE TrimEnd(_)
TrimEnd(line) ==
    IF line # <<>> /\ line[Len(line)] = " "
    THEN TrimEnd(SubSeq(line, 1, Len(line) - 1))
    ELSE line

\* str::trim
Trim(raw) == TrimEnd(TrimStart(raw))

Digits == <<"1", "2", "3", "4", "5", "6", "7", "8", "9">>

\* line.parse::<AccountAddress>(): the address, or 0 for a parse error.
ParseAddress(line) ==
    IF \E a \in Addr : line = <<Digits[a]>>
    THEN CHOOSE a \in Addr : line = <<Digits[a]>>
    ELSE 0

RECURSIVE ReadLinesSkipBad(_, _, _)
\* A reading loop that passes over a line that is no address.
ReadLinesSkipBad(lines, idx, out) ==
    IF idx >= Len(lines) THEN [ok |-> TRUE, addrs |-> out, line |-> 0]
    ELSE LET line == Trim(lines[idx + 1])
         IN IF line = <<>> \/ Head(line) = "#" \/ ParseAddress(line) = 0
            THEN ReadLinesSkipBad(lines, idx + 1, out)
            ELSE ReadLinesSkipBad(lines, idx + 1, Append(out, ParseAddress(line)))

RECURSIVE ReadLines(_, _, _)
\* The loop of read_addresses_file from line idx on (0-based), out being
\* what was pushed so far.
ReadLines(lines, idx, out) ==
    IF idx >= Len(lines) THEN [ok |-> TRUE, addrs |-> out, line |-> 0]
    ELSE LET line == Trim(lines[idx + 1])
         IN IF line = <<>> \/ Head(line) = "#"
            THEN ReadLines(lines, idx + 1, out)
            ELSE IF ParseAddress(line) = 0
                 THEN [ok |-> FALSE, addrs |-> <<>>, line |-> idx + 1]
                 ELSE ReadLines(lines, idx + 1, Append(out, ParseAddress(line)))

\* read_addresses_file: Ok(addresses), or the error with its 1-based line
\* (line 0: the file could not be read).
read_addresses_file(file) ==
    IF ~file.readable THEN [ok |-> FALSE, addrs |-> <<>>, line |-> 0]
    ELSE ReadLines(file.lines, 0, <<>>)

\* The batch size passed on as configured.
ChunkSizeUnclamped(b) == b

\* std::cmp::max(1, batch_size), the argument of due.chunks.
ChunkSize(b) == IF 1 >= b THEN 1 ELSE b

\* A chunk one element longer than asked for.
ChunkLenOffByOne(len, chunk_size) == Min(len, chunk_size + 1)

\* Chunks::next: the length of the chunk split off a slice of length len.
ChunkLen(len, chunk_size) == Min(len, chunk_size)

RECURSIVE SumBalances(_)
\* The mathematical sum of a chunk's balances.
SumBalances(chunk) ==
    IF chunk = <<>> THEN 0 ELSE Head(chunk)[2] + SumBalances(Tail(chunk))

ChunkAddrs(chunk) == [i \in 1..Len(chunk) |-> chunk[i][1]]

\* A refresh that reads the ledger's value and never stores it.
refresh_not_stored(ok) == sequence_number

\* A refresh that stores a default of 0 when the query fails.
refresh_default_on_error(ok) == IF ok THEN ledger_seq ELSE 0

\* api_client.get_account_sequence_number + set_sequence_number: the local
\* sequence number after refresh_sequence_number returns Ok (ok) or Err.
refresh_sequence_number(ok) == IF ok THEN ledger_seq ELSE sequence_number

\* An advance that leaves the sequence number where it was.
increment_forgotten(s) == s

\* An advance by two, as when the number is advanced at signing and again
\* after the confirmation.
increment_twice(s) == s + 2

\* gas_account.increment_sequence_number()
increment_sequence_number(s) == s + 1

\* The advance placed before the check of the submission's result.
SeqAfterSubmitAlwaysAdvanced(result, refresh_ok) ==
    IF result = "ok" THEN sequence_number + 1
    ELSE (IF refresh_ok THEN ledger_seq ELSE sequence_number) + 1

\* Lines 369-375 / 421-427: the local sequence number when the submit
\* function returns: advanced after Ok, else what the refresh (which answered
\* refresh_ok) left.
SeqAfterSubmit(result, refresh_ok) ==
    IF result = "ok" THEN increment_sequence_number(sequence_number)
    ELSE refresh_sequence_number(refresh_ok)

\* The error of a refresh that failed, returned in place of the submission's
\* (as with `refresh_sequence_number(..).await?`).
SubmitErrorMasked(refresh_ok) == IF refresh_ok THEN "submit" ELSE "refresh"

\* Lines 369-372 / 421-424: the error the submit function returns after
\* submit_and_wait failed and the refresh answered refresh_ok: the refresh's
\* result is dropped (`let _ =`), the submission's error is returned.
SubmitError(refresh_ok) == "submit"

\* main's report of the error that ended it: the outermost context of the
\* error sweep_one returned.
ErrorReport(error) ==
    IF error = "submit" THEN <<"Error: submit sweep tx", 0>>
    ELSE <<"Error: get account sequence number", 0>>

\* The early return taken only with --force.
NothingToSweepNeedsForce(balance, f) == balance = 0 /\ f

\* The early return that does not look at --force.
NothingToSweepIgnoresForce(balance, f) == balance = 0

\* sweep_one's early return.
NothingToSweep(balance, f) == balance = 0 /\ ~f

\* A poll loop that a failed query ends.
NextPollBreaksOnErr(i, ok) == IF ok THEN i + 1 ELSE Cardinality(nfts) + 1

\* Where the poll loop goes after the query at position i answered.
NextPoll(i, ok) == i + 1

\* -------------------------------------------------------------------- init
\* The state when main starts: the command line is parsed, the gas account
\* is not yet built (LocalAccount::from_private_key(.., 0) starts it at 0).
Init ==
    /\ pc = "start"
    /\ \/ /\ command = "SweepOnce"
          /\ force \in BOOLEAN
          /\ nft \in {<<a>> : a \in Addr}
          /\ nfts_file = NoFile
          /\ batch_size = 0
       \/ /\ command = "Watch"
          /\ force = FALSE
          /\ nft \in NftArgs
          /\ nfts_file \in FileArgs
          /\ batch_size \in 0..MaxBatch
    /\ sequence_number = 0
    /\ ledger_seq = 0
    /\ nfts = {}
    /\ poll_idx = 1
    /\ due = <<>>
    /\ rest = <<>>
    /\ nft_addrs = <<>>
    /\ total_balance = 0
    /\ escrow_balance = 0
    /\ signed_txn = NoTxn
    /\ in_flight = {}
    /\ submit_result = "none"
    /\ panic_msg = ""
    /\ stderr = {}
    /\ stdout = {}
    /\ view_result = [a \in Addr |-> NoView]
    /\ queried = [a \in Addr |-> 0]
    /\ batches = <<>>
    /\ submit_calls = 0
    /\ prev = NoPrev
    /\ confirmed = {}
    /\ cycle_seq = 0
    /\ startup = NoStartup
    /\ built_from = NoBuild
    /\ address = <<>>
    /\ formatted = NoFormat

\* ----------------------------------------------------------------- startup
\* main, lines 98-108: the chain id is fetched and the private key parsed;
\* either can fail, and main then returns the error.
GetChainId ==
    /\ pc = "start"
    /\ \E ok \in BOOLEAN :
        IF ok
        THEN /\ pc' = "startup_refresh"
             /\ UNCHANGED stderr
        ELSE /\ pc' = "exit_err"
             /\ stderr' = stderr \cup {<<"Error: startup", 0>>}
    /\ UNCHANGED <<sdkVars, cliVars, inputVars, sequence_number, ledger_seq, nfts, pollVars,
                   chunkVars, escrow_balance, txVars, panic_msg, stdout, histVars>>

\* A startup refresh whose error is dropped: main goes on to the command.
AfterStartupRefreshIgnored(ok) ==
    IF command = "SweepOnce" THEN "sweep_one" ELSE "build_watchlist"

\* Lines 109-118: where main goes after the startup refresh answered: on to
\* the match on the command, or out with the error (`?`).
AfterStartupRefresh(ok) ==
    IF ok THEN (IF command = "SweepOnce" THEN "sweep_one" ELSE "build_watchlist")
    ELSE "exit_err"

\* main, lines 109-118: the startup refresh, then the match on the command.
StartupRefresh ==
    /\ pc = "startup_refresh"
    /\ \E ok \in BOOLEAN :
        /\ sequence_number' = refresh_sequence_number(ok)
        /\ startup' = [state |-> IF ok THEN "ok" ELSE "err",
                       val |-> IF ok THEN ledger_seq ELSE -1]
        /\ pc' = AfterStartupRefresh(ok)
        /\ stderr' = IF ok THEN stderr
                     ELSE stderr \cup {<<"Error: get gas account sequence number", 0>>}
    /\ UNCHANGED <<sdkVars, cliVars, inputVars, ledger_seq, nfts, pollVars, chunkVars,
                   escrow_balance, txVars, panic_msg, stdout, prev, confirmed,
                   cycle_seq>>

\* ------------------------------------------------------------- submission
\* A stamp read once when the cycle began.
BuilderSequenceNumberOfCycle == cycle_seq

\* Lines 363 / 415, `.sequence_number(gas_account.sequence_number())`: the
\* stamp of the transaction being built is the local number at that moment.
BuilderSequenceNumber == sequence_number

\* Lines 357-369 / 409-421: the builder reads the local sequence number, the
\* transaction is signed and handed to submit_and_wait.
SignAndSubmit(addrs) ==
    LET txn == [sequence_number |-> BuilderSequenceNumber, nfts |-> addrs]
    IN /\ signed_txn' = txn
       /\ in_flight' = in_flight \cup {txn}
       /\ submit_result' = "none"
       /\ submit_calls' = submit_calls + 1

\* A submission that is started and not awaited: the loop goes on at once.
NotAwaited == "chunk"

\* Where main stands while submit_and_wait is pending.
AwaitingSubmit == "await_submit"

\* sweep_one, lines 260-279: the balance query (an error counts as 0), the
\* early return, else submit_sweep_tx up to its submit_and_wait.
SweepOneQuery ==
    /\ pc = "sweep_one"
    /\ \E r \in ViewOutcomes :
        LET balance == IF r.ok THEN r.val ELSE 0
        IN /\ escrow_balance' = balance
           /\ view_result' = [view_result EXCEPT ![nft[1]] = r]
           /\ queried' = [queried EXCEPT ![nft[1]] = @ + 1]
           /\ IF NothingToSweep(balance, force)
              THEN /\ pc' = "exit_ok"
                   /\ UNCHANGED txVars
              ELSE /\ pc' = AwaitingSubmit
                   /\ SignAndSubmit(nft)
    /\ UNCHANGED <<sdkVars, cliVars, inputVars, sequence_number, ledger_seq, nfts, poll_idx,
                   due, chunkVars, panic_msg, logVars, histVars>>

\* submit_and_wait returns Ok: the ledger executed the transaction, which it
\* does only for the account's current sequence number.
SubmitConfirmed ==
    /\ pc = "await_submit"
    /\ signed_txn \in in_flight
    /\ signed_txn.sequence_number = ledger_seq
    /\ ledger_seq < MaxSeq
    /\ ledger_seq' = ledger_seq + 1
    /\ in_flight' = in_flight \ {signed_txn}
    /\ submit_result' = "ok"
    /\ pc' = "submit_returned"
    /\ UNCHANGED <<sdkVars, cliVars, inputVars, sequence_number, nfts, pollVars, chunkVars,
                   escrow_balance, signed_txn, submit_calls, panic_msg, logVars,
                   histVars>>

\* submit_and_wait returns Err and the ledger did not execute the
\* transaction (rejection, expiry, network fault before it arrived).
SubmitRejected ==
    /\ pc = "await_submit"
    /\ signed_txn \in in_flight
    /\ in_flight' = in_flight \ {signed_txn}
    /\ submit_result' = "err"
    /\ pc' = "submit_returned"
    /\ UNCHANGED <<sdkVars, cliVars, inputVars, sequence_number, ledger_seq, nfts, pollVars,
                   chunkVars, escrow_balance, signed_txn, submit_calls, panic_msg,
                   logVars, histVars>>

\* submit_and_wait returns Err although the ledger executed the transaction
\* (the wait timed out or the connection broke after the submission).
SubmitLostAck ==
    /\ pc = "await_submit"
    /\ signed_txn \in in_flight
    /\ signed_txn.sequence_number = ledger_seq
    /\ ledger_seq < MaxSeq
    /\ ledger_seq' = ledger_seq + 1
    /\ in_flight' = in_flight \ {signed_txn}
    /\ submit_result' = "err"
    /\ pc' = "submit_returned"
    /\ UNCHANGED <<sdkVars, cliVars, inputVars, sequence_number, nfts, pollVars, chunkVars,
                   escrow_balance, signed_txn, submit_calls, panic_msg, logVars,
                   histVars>>

\* Lines 374-375 / 426-427 and the caller's Ok arm (lines 214-220, 281-286).
SubmitOk ==
    /\ pc = "submit_returned"
    /\ submit_result = "ok"
    /\ sequence_number' = SeqAfterSubmit(submit_result, FALSE)
    /\ prev' = [kind |-> "ok", stamp |-> signed_txn.sequence_number,
                refresh_calls |-> 0, refreshed |-> FALSE, val |-> -1,
                error |-> "none"]
    /\ confirmed' = confirmed \cup {signed_txn.sequence_number}
    /\ startup' = [startup EXCEPT !.val = -1]
    /\ submit_result' = "none"
    /\ signed_txn' = NoTxn
    /\ IF command = "SweepOnce"
       THEN /\ pc' = "exit_ok"
            /\ stdout' = stdout \cup {<<"swept", escrow_balance>>}
       ELSE /\ pc' = "chunk"
            /\ stdout' = stdout \cup {<<"batch swept", total_balance>>}
    /\ UNCHANGED <<sdkVars, cliVars, inputVars, ledger_seq, nfts, pollVars, chunkVars,
                   escrow_balance, in_flight, submit_calls, panic_msg, stderr,
                   cycle_seq>>

\* Lines 369-372 / 421-424: the refresh whose result is dropped, the return
\* of the submission error, and the caller's Err arm up to its next await
\* (lines 203-210 in watch mode; main returns the error in single-shot mode).
SubmitErr ==
    /\ pc = "submit_returned"
    /\ submit_result = "err"
    /\ \E ok \in BOOLEAN :
        /\ sequence_number' = SeqAfterSubmit(submit_result, ok)
        /\ prev' = [kind |-> "fail", stamp |-> signed_txn.sequence_number,
                    refresh_calls |-> 1, refreshed |-> ok,
                    val |-> IF ok THEN ledger_seq ELSE -1,
                    error |-> SubmitError(ok)]
        /\ stderr' = stderr \cup
               {IF command = "SweepOnce" THEN ErrorReport(SubmitError(ok))
                ELSE <<"batch sweep failed", total_balance>>}
    /\ startup' = [startup EXCEPT !.val = -1]
    /\ submit_result' = "none"
    /\ signed_txn' = NoTxn
    /\ pc' = IF command = "SweepOnce" THEN "exit_err" ELSE "loop_refresh"
    /\ UNCHANGED <<sdkVars, cliVars, inputVars, ledger_seq, nfts, pollVars, chunkVars,
                   escrow_balance, in_flight, submit_calls, panic_msg, stdout,
                   confirmed, cycle_seq>>

\* -------------------------------------------------------------- watch mode
\* A build that takes no set for empty.
is_empty_unchecked(set) == FALSE

\* Lines 154-156: nfts.is_empty()
is_empty(set) == set = {}

\* main, lines 145-156: the BTreeSet is filled from --nft and the file; a
\* file error or an empty set ends main with an error. nft and nfts_file are
\* moved into the loop and gone afterwards.
BuildWatchlist ==
    /\ pc = "build_watchlist"
    /\ LET file == IF nfts_file.some THEN read_addresses_file(nfts_file)
                   ELSE [ok |-> TRUE, addrs |-> <<>>, line |-> 0]
           set == MergeWatchlist(nft, file.addrs)
       IN IF ~file.ok
          THEN /\ pc' = "exit_err"
               /\ stderr' = stderr \cup {<<"Error: read --nfts-file", file.line>>}
               /\ UNCHANGED nfts
          ELSE IF is_empty(set)
          THEN /\ pc' = "exit_err"
               /\ stderr' = stderr \cup
                      {<<"Error: watch mode requires --nft and/or --nfts-file", 0>>}
               /\ UNCHANGED nfts
          ELSE /\ pc' = "poll"
               /\ nfts' = set
               /\ UNCHANGED stderr
    /\ nft' = <<>>
    /\ nfts_file' = NoFile
    /\ built_from' = [done |-> TRUE, nft |-> nft, file |-> nfts_file]
    /\ cycle_seq' = sequence_number
    /\ UNCHANGED <<sdkVars, cliVars, sequence_number, ledger_seq, pollVars, chunkVars,
                   escrow_balance, txVars, panic_msg, stdout, prev, confirmed,
                   startup>>

\* Lines 160-178: one pass of the poll loop, the balance query of the next
\* address of the set answering Ok(balance) or Err.
PollOne ==
    /\ pc = "poll"
    /\ poll_idx <= Cardinality(nfts)
    /\ \E r \in ViewOutcomes :
        LET nft_addr == SortedSeq(nfts)[poll_idx]
        IN /\ due' = IF r.ok /\ r.val > 0 THEN Append(due, <<nft_addr, r.val>>)
                     ELSE due
           /\ stderr' = IF r.ok THEN stderr
                        ELSE stderr \cup {<<"balance check failed", nft_addr>>}
           /\ view_result' = [view_result EXCEPT ![nft_addr] = r]
           /\ queried' = [queried EXCEPT ![nft_addr] = @ + 1]
           /\ poll_idx' = NextPoll(poll_idx, r.ok)
    /\ built_from' = NoBuild
    /\ UNCHANGED <<pc, sdkVars, cliVars, nft, nfts_file, sequence_number, ledger_seq, nfts,
                   chunkVars, escrow_balance, txVars, panic_msg, stdout, histVars>>

\* Lines 180-185: the poll loop is over; an empty due list sleeps, else
\* due.chunks(max(1, batch_size)) is created (it panics on a size of 0).
PollDone ==
    /\ pc = "poll"
    /\ poll_idx > Cardinality(nfts)
    /\ IF due = <<>>
       THEN /\ pc' = "sleep"
            /\ UNCHANGED <<rest, panic_msg>>
       ELSE IF ChunkSize(batch_size) = 0
       THEN /\ pc' = "panicked"
            /\ panic_msg' = "chunk size must be non-zero"
            /\ UNCHANGED rest
       ELSE /\ pc' = "chunk"
            /\ rest' = due
            /\ UNCHANGED panic_msg
    /\ UNCHANGED <<sdkVars, cliVars, inputVars, sequence_number, ledger_seq, nfts, pollVars,
                   nft_addrs, total_balance, batches, escrow_balance, txVars,
                   logVars, histVars>>

\* The next chunk of the iterator (rest is not empty).
NextChunk == SubSeq(rest, 1, ChunkLen(Len(rest), ChunkSize(batch_size)))

\* Lines 185-201: the iterator yields the next chunk, its addresses and its
\* balance sum are taken, and submit_sweep_many_tx runs up to its
\* submit_and_wait. The sum fits 64 bits, or it does not and the build wraps.
SubmitBatch ==
    /\ pc = "chunk"
    /\ rest # <<>>
    /\ LET chunk == NextChunk
           sum == SumBalances(chunk)
       IN /\ rest' = SubSeq(rest, Len(chunk) + 1, Len(rest))
          /\ nft_addrs' = ChunkAddrs(chunk)
          /\ batches' = Append(batches, ChunkAddrs(chunk))
          /\ total_balance' = sum % (U64_MAX + 1)
          /\ SignAndSubmit(ChunkAddrs(chunk))
    /\ pc' = AwaitingSubmit
    /\ UNCHANGED <<sdkVars, cliVars, inputVars, sequence_number, ledger_seq, nfts, pollVars,
                   escrow_balance, panic_msg, logVars, histVars>>

\* Line 188 in a build with overflow checks: the sum of the chunk's balances
\* does not fit 64 bits and Iterator::sum panics.
SumOverflowPanic ==
    /\ pc = "chunk"
    /\ rest # <<>>
    /\ SumBalances(NextChunk) > U64_MAX
    /\ pc' = "panicked"
    /\ panic_msg' = "attempt to add with overflow"
    /\ rest' = SubSeq(rest, Len(NextChunk) + 1, Len(rest))
    /\ nft_addrs' = ChunkAddrs(NextChunk)
    /\ batches' = Append(batches, ChunkAddrs(NextChunk))
    /\ UNCHANGED <<sdkVars, cliVars, inputVars, sequence_number, ledger_seq, nfts, pollVars,
                   total_balance, escrow_balance, txVars, logVars, histVars>>

\* Lines 185, 223: the iterator is exhausted and the loop goes to its sleep.
ChunksDone ==
    /\ pc = "chunk"
    /\ rest = <<>>
    /\ pc' = "sleep"
    /\ UNCHANGED <<sdkVars, cliVars, inputVars, sequence_number, ledger_seq, nfts, pollVars,
                   chunkVars, escrow_balance, txVars, panic_msg, logVars, histVars>>

\* Lines 209-213: the loop's own refresh after a failed batch; its error is
\* logged.
LoopRefresh ==
    /\ pc = "loop_refresh"
    /\ \E ok \in BOOLEAN :
        /\ sequence_number' = refresh_sequence_number(ok)
        /\ prev' = [prev EXCEPT !.refresh_calls = @ + 1,
                                !.refreshed = @ \/ ok,
                                !.val = IF ok THEN ledger_seq ELSE @]
        /\ stderr' = IF ok THEN stderr
                     ELSE stderr \cup {<<"sequence refresh failed", 0>>}
    /\ pc' = "chunk"
    /\ UNCHANGED <<sdkVars, cliVars, inputVars, ledger_seq, nfts, pollVars, chunkVars,
                   escrow_balance, txVars, panic_msg, stdout, confirmed,
                   cycle_seq, startup>>

\* A due list that is kept from one cycle to the next.
DueKept == due

\* Line 159, `let mut due = Vec::new()`: the due list a cycle starts with.
DueAtCycleStart == <<>>

\* Lines 181-182, 223 and 158-159: the sleep ends and the next cycle starts
\* with a fresh due list (the per-cycle history starts afresh with it).
Sleep ==
    /\ pc = "sleep"
    /\ pc' = "poll"
    /\ poll_idx' = 1
    /\ due' = DueAtCycleStart
    /\ rest' = <<>>
    /\ nft_addrs' = <<>>
    /\ total_balance' = 0
    /\ batches' = <<>>
    /\ view_result' = [a \in Addr |-> NoView]
    /\ queried' = [a \in Addr |-> 0]
    /\ submit_calls' = 0
    /\ stderr' = {}
    /\ stdout' = {}
    /\ cycle_seq' = sequence_number
    /\ UNCHANGED <<sdkVars, cliVars, inputVars, sequence_number, ledger_seq, nfts,
                   escrow_balance, signed_txn, in_flight, submit_result, panic_msg,
                   prev, confirmed, startup>>

\* ------------------------------------------------------------- environment
\* Another holder of the gas account's key (or a transaction of this process
\* that executes after its submit_and_wait gave up) consumes a sequence number.
OtherActorConsumes ==
    /\ ledger_seq < MaxSeq
    /\ ledger_seq' = ledger_seq + 1
    /\ UNCHANGED <<pc, sdkVars, cliVars, inputVars, sequence_number, nfts, pollVars,
                   chunkVars, escrow_balance, txVars, panic_msg, logVars, histVars>>

Next ==
    \/ GetChainId
    \/ StartupRefresh
    \/ SweepOneQuery
    \/ SubmitConfirmed
    \/ SubmitRejected
    \/ SubmitLostAck
    \/ SubmitOk
    \/ SubmitErr
    \/ BuildWatchlist
    \/ PollOne
    \/ PollDone
    \/ SubmitBatch
    \/ SumOverflowPanic
    \/ ChunksDone
    \/ LoopRefresh
    \/ Sleep
    \/ OtherActorConsumes

Spec == Init /\ [][Next]_vars

\* The steps of main and the returns of the ledger calls it waits for.
MainNext ==
    \/ GetChainId
    \/ StartupRefresh
    \/ SweepOneQuery
    \/ SubmitConfirmed
    \/ SubmitRejected
    \/ SubmitLostAck
    \/ SubmitOk
    \/ SubmitErr
    \/ BuildWatchlist
    \/ PollOne
    \/ PollDone
    \/ SubmitBatch
    \/ SumOverflowPanic
    \/ ChunksDone
    \/ LoopRefresh
    \/ Sleep

\* Every await of main returns (with a value or an error) and the tokio
\* runtime keeps running main: a step of main that is possible is taken.
LiveSpec == Init /\ [][Next]_vars /\ WF_vars(MainNext)

\* ------------------------------------------------------- sdk/rust: utils
\* A &str is modelled as the sequence of its characters; "e'" stands for a
\* character whose UTF-8 encoding has two bytes, every other one has one.
\* utils.rs line 4.
CVN1_TESTNET_ADDRESS ==
    <<"0", "x", "8", "7", "e", "8", "7", "b", "2", "f", "6",
       "c", "a", "0", "1", "a", "0", "a", "0", "2", "d", "6",
       "8", "e", "1", "8", "3", "0", "5", "f", "7", "0", "0",
       "4", "3", "5", "f", "d", "b", "7", "6", "e", "4", "4",
       "5", "d", "b", "9", "d", "2", "4", "c", "8", "4", "a",
       "1", "2", "1", "f", "2", "d", "5", "c", "d", "2", "c" >>

\* char::len_utf8
LenUtf8(c) == IF c = "e'" THEN 2 ELSE 1

RECURSIVE ByteLen(_)
\* str::len: the length in bytes.
ByteLen(str) == IF str = <<>> THEN 0 ELSE LenUtf8(Head(str)) + ByteLen(Tail(str))

\* The number of characters that end at byte offset n of str, or -1 when n
\* is inside a character (slicing there panics).
CharsBefore(str, n) ==
    IF \E k \in 0..Len(str) : ByteLen(SubSeq(str, 1, k)) = n
    THEN CHOOSE k \in 0..Len(str) : ByteLen(SubSeq(str, 1, k)) = n
    ELSE -1

\* utils.rs lines 29-35: address.len() <= 12 returns the input, else
\* &address[..6], "...", &address[address.len()-4..]; a slice bound inside a
\* character panics.
format_address(str) ==
    IF ByteLen(str) <= 12
    THEN [returned |-> TRUE, panicked |-> FALSE, text |-> str]
    ELSE LET head == CharsBefore(str, 6)
             tail == CharsBefore(str, ByteLen(str) - 4)
         IN IF head = -1 \/ tail = -1
            THEN [returned |-> FALSE, panicked |-> TRUE, text |-> <<>>]
            ELSE [returned |-> TRUE, panicked |-> FALSE,
                  text |-> SubSeq(str, 1, head) \o <<".", ".", ".">>
                           \o SubSeq(str, tail + 1, Len(str))]

\* The arguments tried: the testnet address, its prefixes of up to MaxLen
\* characters, and each prefix with one character replaced by a two-byte one.
FormatInputs ==
    {CVN1_TESTNET_ADDRESS}
    \cup {SubSeq(CVN1_TESTNET_ADDRESS, 1, n) : n \in 0..MaxLen}
    \cup UNION {{[SubSeq(CVN1_TESTNET_ADDRESS, 1, n) EXCEPT ![k] = "e'"] :
                     k \in 1..n} : n \in 1..MaxLen}

\* A caller holds an argument and has not called yet; main is not running.
FmtInit ==
    /\ address \in FormatInputs
    /\ formatted = NoFormat
    /\ pc = "sdk"
    /\ command = "none"
    /\ force = FALSE
    /\ nft = <<>>
    /\ nfts_file = NoFile
    /\ batch_size = 0
    /\ sequence_number = 0
    /\ ledger_seq = 0
    /\ nfts = {}
    /\ poll_idx = 1
    /\ due = <<>>
    /\ rest = <<>>
    /\ nft_addrs = <<>>
    /\ total_balance = 0
    /\ escrow_balance = 0
    /\ signed_txn = NoTxn
    /\ in_flight = {}
    /\ submit_result = "none"
    /\ panic_msg = ""
    /\ stderr = {}
    /\ stdout = {}
    /\ view_result = [a \in Addr |-> NoView]
    /\ queried = [a \in Addr |-> 0]
    /\ batches = <<>>
    /\ submit_calls = 0
    /\ prev = NoPrev
    /\ confirmed = {}
    /\ cycle_seq = 0
    /\ startup = NoStartup
    /\ built_from = NoBuild

\* The call of format_address(address).
FormatAddress ==
    /\ pc = "sdk"
    /\ formatted = NoFormat
    /\ formatted' = format_address(address)
    /\ UNCHANGED <<pc, address, cliVars, inputVars, sequence_number, ledger_seq,
                   nfts, pollVars, chunkVars, escrow_balance, txVars, panic_msg,
                   logVars, histVars>>

FmtNext == FormatAddress

FmtSpec == FmtInit /\ [][FmtNext]_vars

\* ------------------------------------------------------------- properties
\* The sequence number stamped on the last transaction signed.
Stamp == signed_txn.sequence_number

\* C1: sequence monotonicity. After a confirmed submission the local sequence
\* number is that submission's stamp plus one, the next submission is stamped
\* with exactly that value when it follows directly, and no transaction is
\* ever stamped with the stamp of a transaction confirmed before it.
C1_SequenceMonotonic ==
    /\ prev.kind = "ok" => sequence_number = prev.stamp + 1
    /\ pc = "await_submit" /\ prev.kind = "ok" => Stamp = prev.stamp + 1
    /\ \A t \in in_flight : t.sequence_number \notin confirmed

\* A second submission, stamped one above the confirmed first, is confirmed too.
C1_Witness ==
    /\ pc = "submit_returned"
    /\ submit_result = "ok"
    /\ prev.kind = "ok"
    /\ Stamp = prev.stamp + 1
    /\ confirmed = {prev.stamp}

\* A step of main (the environment's steps leave pc alone).
MainStep == pc' # pc \/ poll_idx' # poll_idx

\* C2: the local sequence number changes only in the step that follows a
\* confirmed submission, and then by exactly one, or in a step that ran a
\* refresh, and then to the ledger's value; it never changes while a
\* submission is pending, and the step that follows a failed submission leaves
\* it alone or stores the ledger's value.
C2_AdvanceOnlyOnConfirm ==
    [][ /\ (pc = "submit_returned" /\ submit_result = "ok" /\ MainStep)
            => sequence_number' = sequence_number + 1
        /\ (pc = "submit_returned" /\ submit_result = "err" /\ MainStep)
            => sequence_number' \in {sequence_number, ledger_seq}
        /\ sequence_number' # sequence_number
            => \/ pc = "submit_returned" /\ submit_result = "ok"
               \/ /\ pc \in {"startup_refresh", "submit_returned", "loop_refresh"}
                  /\ sequence_number' = ledger_seq
        /\ in_flight # {} => sequence_number' = sequence_number
      ]_vars

\* A failed submission whose refresh failed too left the sequence number at
\* the failed transaction's stamp, while the ledger is elsewhere.
C2_Witness ==
    /\ pc = "loop_refresh"
    /\ prev.kind = "fail"
    /\ ~prev.refreshed
    /\ sequence_number = prev.stamp
    /\ ledger_seq # sequence_number
    /\ confirmed # {}

\* C3 as claimed: the transaction after a failed submission is stamped with a
\* value a refresh run after that failure obtained from the ledger.
C3_NextStampIsRefreshed ==
    pc = "await_submit" /\ prev.kind = "fail"
        => prev.refreshed /\ Stamp = prev.val

\* C3 as amended: the transaction after a failed submission is stamped with
\* the value of the last refresh that succeeded after the failure, and with
\* the failed transaction's own stamp when no refresh succeeded; the local
\* value is at no point the result of an advance.
C3_NextStampRefreshedOrKept ==
    /\ pc = "await_submit" /\ prev.kind = "fail"
        => Stamp = IF prev.refreshed THEN prev.val ELSE prev.stamp
    /\ prev.kind = "fail"
        => sequence_number = IF prev.refreshed THEN prev.val ELSE prev.stamp

\* The batch after a failed one is stamped with a refreshed value two above
\* the failed stamp.
C3_Witness ==
    /\ pc = "await_submit"
    /\ prev.kind = "fail"
    /\ prev.refreshed
    /\ prev.val = prev.stamp + 2
    /\ Stamp = prev.val

\* C4 as claimed: in watch mode one failed batch submission leads to exactly
\* one refresh before the loop goes on to the next batch.
C4_RefreshExactlyOnce ==
    command = "Watch" /\ prev.kind = "fail" /\ pc # "loop_refresh"
        => prev.refresh_calls = 1

\* C5: at most one transaction is pending at any time; one is pending only
\* while main waits in submit_and_wait for exactly that transaction, so the
\* next transaction is built only after the advance or refresh of the
\* previous one.
C5_StrictlySerial ==
    /\ Cardinality(in_flight) <= 1
    /\ in_flight # {} => pc = "await_submit" /\ in_flight = {signed_txn}
    /\ pc = "await_submit" => in_flight = {signed_txn}

\* The second batch of a cycle is pending alone.
C5_Witness ==
    /\ pc = "await_submit"
    /\ Len(batches) = 2
    /\ in_flight = {signed_txn}
    /\ signed_txn.nfts = batches[2]

\* The balance query of sweep_one answered Ok(0).
SweepOneSawZero == view_result[nft[1]] = [ok |-> TRUE, val |-> 0]

\* C6: sweep_one with a queried balance of 0 and force = false ends main with
\* success in that very step: nothing is signed or submitted, the local
\* sequence number keeps its value and nothing is logged as an error.
C6_ZeroBalanceNoOp ==
    [][ (pc = "sweep_one" /\ pc' # pc /\ ~force /\ SweepOneSawZero')
            => /\ pc' = "exit_ok"
               /\ sequence_number' = sequence_number
               /\ signed_txn' = NoTxn
               /\ in_flight' = {}
               /\ submit_calls' = 0
               /\ stderr' = stderr
      ]_vars

\* A single-shot run without force that saw balance 0 has ended with success.
C6_Witness ==
    /\ command = "SweepOnce"
    /\ pc = "exit_ok"
    /\ ~force
    /\ SweepOneSawZero
    /\ submit_calls = 0
    /\ sequence_number = ledger_seq

\* C7: once sweep_one has returned, exactly one submission call was made if
\* force is set (whatever the balance query answered) or if the queried
\* balance is above 0; sweep_one never makes more than one.
C7_OneSubmission ==
    command = "SweepOnce" =>
        /\ submit_calls <= 1
        /\ (pc \in {"exit_ok", "exit_err"} /\ queried[nft[1]] = 1
            /\ (force \/ (view_result[nft[1]].ok /\ view_result[nft[1]].val > 0)))
               => submit_calls = 1

\* A forced single-shot sweep of an escrow with balance 0 submitted once.
C7_Witness ==
    /\ command = "SweepOnce"
    /\ pc = "exit_ok"
    /\ force
    /\ SweepOneSawZero
    /\ submit_calls = 1
    /\ confirmed # {}

RECURSIVE Flatten(_)
\* The concatenation of a sequence of sequences.
Flatten(ss) == IF ss = <<>> THEN <<>> ELSE Head(ss) \o Flatten(Tail(ss))

\* main is in the batch phase of a cycle, or past it.
PastPoll == pc \in {"chunk", "await_submit", "submit_returned", "loop_refresh",
                    "sleep", "panicked"}

\* C8: for a batch size B >= 1 the chunks yielded so far in a cycle, followed
\* by what the iterator still holds, are the due list in its order; every
\* chunk has between 1 and B addresses; and once the iterator is exhausted
\* there are exactly ceil(M / B) chunks for a due list of M.
C8_BatchPartition ==
    command = "Watch" /\ batch_size >= 1 /\ PastPoll =>
        /\ Flatten(batches) \o ChunkAddrs(rest) = ChunkAddrs(due)
        /\ \A i \in 1..Len(batches) :
               Len(batches[i]) >= 1 /\ Len(batches[i]) <= batch_size
        /\ rest = <<>> =>
               Len(batches) = (Len(due) + batch_size - 1) \div batch_size

\* Three due escrows with batch size 2 went out as a batch of 2 and one of 1.
C8_Witness ==
    /\ pc = "sleep"
    /\ batch_size = 2
    /\ Len(due) = 3
    /\ Len(batches) = 2
    /\ Len(batches[1]) = 2
    /\ Len(batches[2]) = 1
    /\ submit_calls = 2

\* C9: a batch size of 0 is not rejected (the chunking does not panic) and
\* works as 1: every chunk has exactly one address and a cycle yields as many
\* chunks as escrows are due; for no batch size is a chunk or a submitted
\* transaction empty.
C9_ZeroBatchSizeIsOne ==
    command = "Watch" =>
        /\ panic_msg # "chunk size must be non-zero"
        /\ \A i \in 1..Len(batches) : Len(batches[i]) >= 1
        /\ \A t \in in_flight : t.nfts # <<>>
        /\ batch_size = 0 => \A i \in 1..Len(batches) : Len(batches[i]) = 1
        /\ batch_size = 0 /\ pc = "sleep" => Len(batches) = Len(due)

\* With batch size 0, two due escrows went out in two batches of one.
C9_Witness ==
    /\ pc = "sleep"
    /\ batch_size = 0
    /\ Len(due) = 2
    /\ Len(batches) = 2
    /\ submit_calls = 2

\* The addresses of the set whose query of this cycle answered a balance > 0,
\* in the set's order, with that balance.
DueExpected ==
    LET IsDue(a) == view_result[a].ok /\ view_result[a].val > 0
        order == SelectSeq(SortedSeq(nfts), IsDue)
    IN [i \in 1..Len(order) |-> <<order[i], view_result[order[i]].val>>]

\* C10: when the poll of a cycle is over, every address of the watchlist was
\* queried exactly once (during the poll, the addresses before the iterator
\* once and the others not yet); a failed query is logged and keeps only its
\* own address out of the due list, which holds every address whose query
\* answered a balance > 0; and with a non-empty due list the cycle goes on to
\* the batches before it sleeps.
C10_PollIndependent ==
    command = "Watch" /\ pc \notin {"start", "startup_refresh", "build_watchlist",
                                    "exit_err"} =>
        /\ \A a \in Addr : queried[a] <= 1
        /\ \A a \in Addr \ nfts : queried[a] = 0
        /\ \A a \in nfts : ~view_result[a].ok /\ queried[a] = 1
               => <<"balance check failed", a>> \in stderr
        /\ (PastPoll \/ poll_idx > Cardinality(nfts)) =>
               /\ \A a \in nfts : queried[a] = 1
               /\ due = DueExpected
        /\ pc = "poll" =>
               \A i \in 1..Cardinality(nfts) :
                   queried[SortedSeq(nfts)[i]] = IF i < poll_idx THEN 1 ELSE 0
        /\ pc = "sleep" /\ due # <<>> => rest = <<>> /\ batches # <<>>

\* The query of the first of three addresses failed, the two others are due
\* and their batch is being submitted.
C10_Witness ==
    /\ pc = "await_submit"
    /\ nfts = {1, 3, 4}
    /\ ~view_result[1].ok
    /\ <<"balance check failed", 1>> \in stderr
    /\ ChunkAddrs(due) = <<3, 4>>
    /\ batches = << <<3, 4>> >>

\* C11 as claimed: when a cycle of the watch loop is over, its due list is the
\* addresses of the watchlist whose query answered a balance > 0, the cycle
\* made ceil(M / max(1, B)) submission calls for a due list of M and batch
\* size B (none, and only the sleep, for M = 0), and when none of them failed
\* the local sequence number is that number above its value at the cycle's
\* start.
C11_CycleSubmissions ==
    command = "Watch" /\ pc \in {"sleep", "panicked"} =>
        LET B == IF batch_size > 1 THEN batch_size ELSE 1
            N == (Len(due) + B - 1) \div B
        IN /\ due = DueExpected
           /\ submit_calls = N
           /\ due = <<>> => pc = "sleep" /\ batches = <<>>
           /\ (\A e \in stderr : e[1] # "batch sweep failed")
                  => sequence_number = cycle_seq + N

\* The watch loop has started: the watchlist was built and is polled.
LoopStarted == command = "Watch" /\ nfts # {}

\* C12 as claimed: once the watch loop has started, whatever the balance
\* queries, submissions and refreshes answer, main always gets to the start
\* of another poll cycle.
C12_LoopNeverEnds ==
    LoopStarted ~> (pc = "poll" /\ poll_idx = 1)

\* A batch submission of the current cycle failed.
BatchFailedInCycle == \E e \in stderr : e[1] = "batch sweep failed"

\* C13 as claimed: a failed batch submission keeps no later batch of its
\* cycle from being submitted. The batch submitted after a failed one is
\* stamped with the local sequence number as the failed batch's resync left
\* it, the batches go out in the order of the due list, and when the cycle is
\* over every batch planned for it was submitted.
C13_FailureIsolated ==
    command = "Watch" /\ BatchFailedInCycle =>
        LET B == IF batch_size > 1 THEN batch_size ELSE 1
            N == (Len(due) + B - 1) \div B
        IN /\ pc = "await_submit" => Stamp = sequence_number
           /\ pc = "await_submit" /\ prev.kind = "fail"
                  => Stamp = IF prev.refreshed THEN prev.val ELSE prev.stamp
           /\ Flatten(batches) \o ChunkAddrs(rest) = ChunkAddrs(due)
           /\ pc \in {"sleep", "panicked"}
                  => /\ rest = <<>>
                     /\ Len(batches) = N
                     /\ submit_calls = N

\* The balance query of sweep_one answered an error.
SweepOneQueryFailed ==
    command = "SweepOnce" /\ queried[nft[1]] = 1 /\ ~view_result[nft[1]].ok

\* C14 as claimed: in single-shot mode a failed balance query ends main with
\* an error that is reported: main does not end with success, and nothing is
\* submitted on the strength of the failed query.
C14_QueryErrorFails ==
    SweepOneQueryFailed =>
        /\ pc = "exit_err"
        /\ stderr # {}
        /\ submit_calls = 0

\* C15: the error a failed submit call returns is the submission's error,
\* whether the refresh that followed it succeeded or failed; in single-shot
\* mode main ends with exactly that error, and the error of a failed refresh
\* is not reported in its place.
C15_OriginalErrorReturned ==
    prev.kind = "fail" =>
        /\ prev.error = "submit"
        /\ command = "SweepOnce" =>
               /\ pc = "exit_err"
               /\ <<"Error: submit sweep tx", 0>> \in stderr
               /\ <<"Error: get account sequence number", 0>> \notin stderr

\* A single-shot submission failed, the refresh after it failed too, and main
\* ended with the submission's error.
C15_Witness ==
    /\ command = "SweepOnce"
    /\ pc = "exit_err"
    /\ prev.kind = "fail"
    /\ ~prev.refreshed
    /\ prev.error = "submit"
    /\ stderr = {<<"Error: submit sweep tx", 0>>}

\* The last submission of this invocation (single-shot) or of this cycle
\* (watch) failed.
SubmitFailedHere ==
    prev.kind = "fail" /\ (command = "SweepOnce" \/ BatchFailedInCycle)

\* C16 as claimed: no failure goes unlogged. A refresh that failed after a
\* failed submission has a line on stderr, in single-shot and in watch mode;
\* so has every failed balance query and every failed submission.
C16_NoSilentDrops ==
    /\ SubmitFailedHere /\ ~prev.refreshed
           => <<"sequence refresh failed", 0>> \in stderr
    /\ SubmitFailedHere
           => \E e \in stderr :
                  e[1] \in {"batch sweep failed", "Error: submit sweep tx"}
    /\ \A a \in Addr : queried[a] = 1 /\ ~view_result[a].ok
           => <<"balance check failed", a>> \in stderr

\* A balance was queried, or a transaction was built or submitted.
LedgerWorkDone ==
    \/ \E a \in Addr : queried[a] > 0
    \/ signed_txn # NoTxn
    \/ in_flight # {}
    \/ submit_calls > 0
    \/ prev.kind # "none"

\* C17: a transaction is built (and a balance polled) only after the startup
\* refresh succeeded; up to the return of the first submit call the local
\* sequence number is the value that refresh read from the ledger, and the
\* first transaction is stamped with it; a failed startup refresh ends main
\* with an error, no balance polled and nothing submitted.
C17_StartupRefreshFirst ==
    /\ LedgerWorkDone => startup.state = "ok"
    /\ pc \in {"sweep_one", "build_watchlist", "poll", "chunk", "sleep"}
           => startup.state = "ok"
    /\ startup.state = "ok" /\ prev.kind = "none"
           => /\ sequence_number = startup.val
              /\ pc = "await_submit" => Stamp = startup.val
    /\ startup.state = "err"
           => /\ pc = "exit_err"
              /\ <<"Error: get gas account sequence number", 0>> \in stderr
              /\ ~LedgerWorkDone
              /\ nfts = {}

\* The first transaction is stamped 1: the startup refresh replaced the 0 the
\* account was constructed with by the ledger's value.
C17_Witness ==
    /\ pc = "await_submit"
    /\ prev.kind = "none"
    /\ startup = [state |-> "ok", val |-> 1]
    /\ Stamp = 1
    /\ confirmed = {}

\* C18 as claimed: the local sequence number changes only in the startup
\* refresh and inside a submit call (the advance after a confirmation, the
\* refresh after a failure); no step of the watch loop itself (poll, due
\* list, chunking, outcome logging, sleep) changes it.
C18_OnlyStateMachineMutates ==
    [][ sequence_number' # sequence_number
            => pc \in {"startup_refresh", "submit_returned"} ]_vars

\* The address list the build read from its file argument (none: empty).
BuiltFileAddrs ==
    IF built_from.file.some THEN read_addresses_file(built_from.file).addrs
    ELSE <<>>

\* C19: the watchlist a successful build hands to the poll holds exactly the
\* distinct addresses of the --nft list and the file's list, and iterating
\* it yields each of them once, however often an address is repeated within
\* one list or across the two.
C19_Deduplicated ==
    built_from.done /\ pc = "poll" =>
        LET distinct == Elems(built_from.nft) \cup Elems(BuiltFileAddrs)
            order == SortedSeq(nfts)
        IN /\ nfts = distinct
           /\ Len(order) = Cardinality(distinct)
           /\ \A a \in distinct :
                  Cardinality({i \in 1..Len(order) : order[i] = a}) = 1

\* --nft 1 --nft 1 with a file that lists 3 twice, 4 and 1 gave {1, 3, 4}.
C19_Witness ==
    /\ pc = "poll"
    /\ built_from.done
    /\ built_from.nft = <<1, 1>>
    /\ BuiltFileAddrs = <<3, 3, 4, 1>>
    /\ nfts = {1, 3, 4}

\* A line of the file that is blank or a comment once trimmed.
IgnoredLine(raw) == Trim(raw) = <<>> \/ Trim(raw)[1] = "#"

\* A line of the file that is neither ignored nor a valid address.
BadLine(raw) == ~IgnoredLine(raw) /\ ParseAddress(Trim(raw)) = 0

\* C20: of a readable address file only the lines that are neither blank nor
\* comments (after trimming) count. If one of them is no valid address, main
\* ends with an error that names the first such line, counted from 1, and
\* no watchlist exists: no address (of --nft, or of the file's earlier
\* lines) is ever polled or swept. Otherwise the file contributes exactly
\* the addresses of the lines that count.
C20_FileReadAtomic ==
    built_from.done /\ built_from.file.some /\ built_from.file.readable =>
        LET lines == built_from.file.lines
            bad == {i \in 1..Len(lines) : BadLine(lines[i])}
            kept == {i \in 1..Len(lines) : ~IgnoredLine(lines[i])}
        IN IF bad # {}
           THEN /\ pc = "exit_err"
                /\ <<"Error: read --nfts-file",
                      CHOOSE i \in bad : \A j \in bad : i <= j>> \in stderr
                /\ nfts = {}
                /\ \A a \in Addr : queried[a] = 0
                /\ submit_calls = 0
           ELSE pc = "poll" =>
                    nfts = Elems(built_from.nft) \cup
                           {ParseAddress(Trim(lines[i])) : i \in kept}

\* With --nft given and a file whose line 1 is a valid address, line 2 a
\* comment and line 3 no address, main ended with the error for line 3 and
\* an empty watchlist.
C20_Witness ==
    /\ pc = "exit_err"
    /\ built_from.done
    /\ built_from.nft # <<>>
    /\ built_from.file.lines = << <<"2">>, <<" ", "#">>, <<"z">>, <<"1">> >>
    /\ stderr = {<<"Error: read --nfts-file", 3>>}
    /\ nfts = {}

\* The watchlist build read its inputs without error and they hold no address.
BuiltFromNothing ==
    /\ built_from.done
    /\ built_from.file.some => read_addresses_file(built_from.file).ok
    /\ Elems(built_from.nft) \cup Elems(BuiltFileAddrs) = {}

\* C21: in watch mode an empty merged watchlist ends main with the
\* configuration error before any poll: no balance was queried and nothing
\* was built or submitted; and the poll never runs over an empty watchlist.
\* Single-shot mode builds no watchlist and never reports that error.
C21_EmptyWatchlistFails ==
    /\ BuiltFromNothing
           => /\ pc = "exit_err"
              /\ <<"Error: watch mode requires --nft and/or --nfts-file", 0>>
                     \in stderr
              /\ ~LedgerWorkDone
    /\ command = "Watch" /\ PastPoll => nfts # {}
    /\ command = "Watch" /\ pc = "poll" => nfts # {}
    /\ command = "SweepOnce"
           => /\ nfts = {}
              /\ ~built_from.done
              /\ <<"Error: watch mode requires --nft and/or --nfts-file", 0>>
                     \notin stderr

\* Watch mode without --nft and with an empty file: main ended with the
\* configuration error, after a startup refresh that succeeded.
C21_Witness ==
    /\ command = "Watch"
    /\ pc = "exit_err"
    /\ built_from.done
    /\ built_from.nft = <<>>
    /\ built_from.file = [some |-> TRUE, readable |-> TRUE, lines |-> <<>>]
    /\ stderr = {<<"Error: watch mode requires --nft and/or --nfts-file", 0>>}
    /\ startup.state = "ok"

\* C22 as claimed: format_address returns; for an input of at most 12
\* characters it returns the input, for a longer one the first 6 characters,
\* "..." and the last 4 characters; the testnet address gives
\* "0x87e8...cd2c".
C22_FormatAddress ==
    formatted # NoFormat =>
        /\ formatted.returned
        /\ formatted.text =
               IF Len(address) <= 12 THEN address
               ELSE SubSeq(address, 1, 6) \o <<".", ".", ".">>
                    \o SubSeq(address, Len(address) - 3, Len(address))
        /\ address = CVN1_TESTNET_ADDRESS
               => formatted.text = <<"0", "x", "8", "7", "e", "8", ".", ".", ".",
                                     "c", "d", "2", "c">>

\* The balance query of address a in the current cycle answered a balance
\* above 0.
DueNow(a) == queried[a] = 1 /\ view_result[a].ok /\ view_result[a].val > 0

\* C23: every entry of the due list, every address of a batch yielded in the
\* cycle and every address of the transaction being submitted was queried in
\* this same cycle with a balance above 0 (and the due entry carries that
\* balance); an address whose query of this cycle answered 0 or failed is in
\* none of them, whatever earlier cycles saw.
C23_DueNeverCached ==
    command = "Watch" =>
        /\ \A k \in 1..Len(due) :
               DueNow(due[k][1]) /\ due[k][2] = view_result[due[k][1]].val
        /\ \A i \in 1..Len(batches) : \A j \in 1..Len(batches[i]) :
               DueNow(batches[i][j])
        /\ \A t \in in_flight : \A j \in 1..Len(t.nfts) : DueNow(t.nfts[j])
        /\ \A k \in 1..Len(rest) : DueNow(rest[k][1])

\* The only watched escrow was swept in an earlier cycle; in this cycle its
\* query answered 0 and the cycle ended without a batch.
C23_Witness ==
    /\ pc = "sleep"
    /\ nfts = {1}
    /\ prev.kind = "ok"
    /\ cycle_seq = prev.stamp + 1
    /\ view_result[1] = [ok |-> TRUE, val |-> 0]
    /\ queried[1] = 1
    /\ batches = <<>>
    /\ submit_calls = 0

\* C24 as claimed: the observed balances decide nothing but the logged total.
\* Whatever positive values the due addresses hold, every batch the cycle
\* forms is submitted with the local sequence number as its stamp, and the
\* loop goes on: no state of the watch loop has a batch that was formed but
\* not submitted, and none is the end of the process by a panic.
C24_BalancesInformational ==
    command = "Watch" /\ PastPoll =>
        /\ Len(batches) = submit_calls
        /\ pc # "panicked"
        /\ panic_msg # "attempt to add with overflow"
        /\ pc = "await_submit"
               => /\ signed_txn.nfts = batches[Len(batches)]
                  /\ Stamp = sequence_number

\* C25: against a ledger that executes a transaction only when its stamp is
\* the account's current sequence number (and then advances it) and that
\* answers sequence queries with the current value, the local sequence number
\* is at most the ledger's in every state with no submission in flight, other
\* actors consuming sequence numbers of the gas account included.
C25_LocalNeverAhead ==
    in_flight = {} => sequence_number <= ledger_seq

\* One sweep of ours was confirmed at sequence number 0, another actor used
\* sequence number 1, and nothing is in flight: the local number is behind.
C25_Witness ==
    /\ in_flight = {}
    /\ confirmed = {0}
    /\ prev.kind = "ok"
    /\ sequence_number = 1
    /\ ledger_seq = 2

\* C26: when a submission failed and every refresh run for that failure (the
\* one inside the submit function and, in watch mode, the loop's) failed too,
\* the local sequence number is exactly the failed transaction's stamp, its
\* value before the submission, and the next transaction built carries that
\* same stamp.
C26_FailedRefreshKeepsSeq ==
    prev.kind = "fail" /\ prev.refresh_calls >= 1 /\ ~prev.refreshed
        => /\ sequence_number = prev.stamp
           /\ prev.val = -1
           /\ pc = "await_submit" => signed_txn.sequence_number = prev.stamp

\* In watch mode a batch stamped 1 failed although the ledger executed it,
\* both refreshes failed, and the next batch is in flight with stamp 1 again
\* while the ledger is at 2.
C26_Witness ==
    /\ command = "Watch"
    /\ pc = "await_submit"
    /\ prev.kind = "fail"
    /\ prev.refresh_calls = 2
    /\ ~prev.refreshed
    /\ prev.stamp = 1
    /\ signed_txn.sequence_number = 1
    /\ sequence_number = 1
    /\ ledger_seq = 2

\* C27: in watch mode, once a submission has failed and a refresh run for it
\* was answered (truthfully) by the ledger, and no other actor has consumed a
\* sequence number since, the local sequence number is the ledger's, however
\* far apart the two were before that one failed submission; the next batch
\* submitted, in the same cycle or in a later one, is stamped with the
\* ledger's current sequence number.
C27_EventualResync ==
    command = "Watch" /\ prev.kind = "fail" /\ prev.refreshed
                      /\ ledger_seq = prev.val
        => /\ sequence_number = ledger_seq
           /\ pc = "await_submit" => signed_txn.sequence_number = ledger_seq

\* The only watched escrow was submitted with stamp 0 while the ledger was
\* elsewhere; the refresh after the failure stored 2, the cycle ended, and in
\* a later cycle the still-due escrow is in flight again with stamp 2, the
\* ledger's number.
C27_Witness ==
    /\ command = "Watch"
    /\ nfts = {1}
    /\ pc = "await_submit"
    /\ prev.kind = "fail"
    /\ prev.refreshed
    /\ prev.stamp = 0
    /\ prev.val = 2
    /\ ledger_seq = 2
    /\ cycle_seq = 2
    /\ signed_txn = [sequence_number |-> 2, nfts |-> <<1>>]
    /\ \A e \in stderr : e[1] # "batch sweep failed"

\* A list read from its end.
Reverse(s) == [i \in 1..Len(s) |-> s[Len(s) + 1 - i]]

\* C28: the watchlist built from the two address lists is the same set when
\* either list is reversed or the two are given in the other order. In every
\* cycle the due list is in strictly ascending address order and holds
\* exactly the watched addresses whose query of the cycle answered a balance
\* above 0, and batch i holds the due addresses at positions (i-1)*B+1 ..
\* i*B of that list in the same order (B the batch size, 1 for 0): the
\* batches are a function of the watched set, the balance snapshot and the
\* batch size alone.
C28_DeterministicBatching ==
    /\ built_from.done /\ pc = "poll"
           => /\ MergeWatchlist(Reverse(built_from.nft), Reverse(BuiltFileAddrs)) = nfts
              /\ MergeWatchlist(BuiltFileAddrs, built_from.nft) = nfts
              /\ MergeWatchlist(<<>>, built_from.nft \o BuiltFileAddrs) = nfts
    /\ command = "Watch"
           => /\ \A i, j \in 1..Len(due) : i < j => due[i][1] < due[j][1]
              /\ \A k \in 1..Len(due) : due[k][1] \in nfts
    /\ command = "Watch" /\ PastPoll
           => LET B == IF batch_size > 1 THEN batch_size ELSE 1
              IN /\ {due[k][1] : k \in 1..Len(due)} = {a \in nfts : DueNow(a)}
                 /\ \A i \in 1..Len(batches) : \A j \in 1..Len(batches[i]) :
                        /\ (i - 1) * B + j <= Len(due)
                        /\ batches[i][j] = due[(i - 1) * B + j][1]
                 /\ \A i \in 1..Len(batches) :
                        Len(batches[i]) = Min(B, Len(due) - (i - 1) * B)

\* The watched set {1,2,3,4} comes only from the file that lists 3, 3, 4, 1
\* together with a --nft list holding 2; all four escrows were due and went
\* out, with batch size 2, as <<1,2>> and <<3,4>>.
C28_Witness ==
    /\ pc = "sleep"
    /\ nfts = {1, 2, 3, 4}
    /\ batch_size = 2
    /\ Len(due) = 4
    /\ batches = << <<1, 2>>, <<3, 4>> >>
    /\ submit_calls = 2

====
